---- MODULE Spec2Model ----
(***************************************************************************)
(* State machine of the Flappy game of src/src/main.rs: the per-frame      *)
(* tick of GameState for State, its three mode handlers (main_menu,        *)
(* playing, end), the menu input handler, the player physics and the       *)
(* obstacle list.                                                          *)
(*                                                                         *)
(* Number representations (all exact for the values the program reaches): *)
(*   - Player.velocity (f32) is an integer count of 2^-26: every velocity  *)
(*     the program computes is a multiple of 2^-26, and F32Round redoes    *)
(*     the round-to-nearest-even of the f32 addition.                      *)
(*   - Obstacle.x and State.distance (f32) are integer counts of 1/2: they *)
(*     start at integers and change by 0.5 only, which f32 does exactly.   *)
(*   - State.frame_time (f32) is an integer count of milliseconds; the     *)
(*     elapsed times the host passes are taken from FrameTimes.            *)
(*   - State.background_offset (f32) is the number of frames scrolled      *)
(*     since it was last 0, counted up to ScrollCap: every frame adds      *)
(*     0.001 * frame_time_ms > 0, and the wrap subtracts 120 only from a   *)
(*     value above 120, so the offset is 0 exactly when that count is 0.   *)
(* The drawing calls only affect the picture and are not part of the state *)
(* below.                                                                  *)
(***************************************************************************)
EXTENDS Integers, Sequences, FiniteSets, TLC

\* ------------------------------------------------------------ bounds
\* The elapsed time of a frame is ShortFrame milliseconds (Spec) or
\* 2 * ShortFrame milliseconds (SpecGame).
ShortFrame == 40
\* NumGaps gap centres are drawn: GapLo, GapHi - 1, GapHi - 2, ...
NumGaps == 1
\* In SpecGame the player flaps freely once the next obstacle is at column
\* NearX or nearer, and stops flapping once the score is MaxScore.
NearX == 25
MaxScore == 1
\* In SpecGame the player hovers around HoverY until then.
HoverY == 25
\* In SpecEdge the player hovers around EdgeY and flaps freely once the next
\* obstacle is at column EdgeX or nearer.
EdgeX == 6
EdgeY == 20
MaxSpawnScore == 50
\* In SpecFile the first game of the process is under way at a score of 0
\* to MaxFileScore.
MaxFileScore == 11
\* In SpecFlap the player flaps freely during the first FlapTicks ticks of a
\* game.
FlapTicks == 14
\* The frames scrolled since the background offset was last 0 are counted up
\* to ScrollCap.
ScrollCap == 1

\* ------------------------------------------------------------ constants
screen_width == 120
screen_height == 80
player_width == 14
player_height == 14
frame_duration == 75
\* obstacle_speed = 0.5, in halves
obstacle_speed == 1
GapLo == 30
GapHi == 60

\* 2^26: one unit of velocity is 2^-26
VelOne == 67108864
\* 0.2f32 = 13421773 * 2^-26
VelStep == 13421773
\* 2.0
VelCap == 134217728
\* -2.5
VelFlap == -167772160

Keys == {"None", "Space", "Up", "Down", "Left", "Right", "Return", "Escape", "P", "M", "Q"}
GapYs == {GapLo + (((GapHi - GapLo - 1) * i) % (GapHi - GapLo)) : i \in 0 .. (NumGaps - 1)}

VARIABLES mode, player, frame_time, score, obstacle_list, distance,
          menu_state, settings, high_score, quitting,
          highscore_file, fs_writes, background_offset

vars == <<mode, player, frame_time, score, obstacle_list, distance,
          menu_state, settings, high_score, quitting,
          highscore_file, fs_writes, background_offset>>

\* ------------------------------------------------------------ helpers
Abs(n) == IF n < 0 THEN -n ELSE n
Max(a, b) == IF a > b THEN a ELSE b
Min(a, b) == IF a < b THEN a ELSE b

\* Rust's integer division truncates toward zero
TruncDiv(a, b) == IF a >= 0 THEN a \div b ELSE -((-a) \div b)

\* The f32 nearest to n * 2^-26 (ties to even), again in units of 2^-26.
F32Ulp(n) ==
    IF Abs(n) < 16777216 THEN 1
    ELSE IF Abs(n) < 33554432 THEN 2
    ELSE IF Abs(n) < 67108864 THEN 4
    ELSE IF Abs(n) < 134217728 THEN 8
    ELSE 16

F32Round(n) ==
    LET u == F32Ulp(n)
        a == Abs(n)
        q == a \div u
        r == a % u
        m == IF 2 * r > u \/ (2 * r = u /\ q % 2 = 1) THEN q + 1 ELSE q
    IN  IF n < 0 THEN -(m * u) ELSE m * u

\* `velocity as i32`: truncation toward zero
VelToInt(v) == TruncDiv(v, VelOne)

\* `obstacle.x as i32` for x in halves
XToInt(x) == TruncDiv(x, 2)

\* ------------------------------------------------------------ Player
PlayerNew(x, y) == [x |-> x, y |-> y, velocity |-> 0]

gravity_to_move_NoClamp(p) ==
    LET v == IF p.velocity < VelCap THEN F32Round(p.velocity + VelStep) ELSE p.velocity
    IN  [x |-> p.x, y |-> p.y + VelToInt(v), velocity |-> v]

gravity_to_move(p) ==
    LET v == IF p.velocity < VelCap THEN F32Round(p.velocity + VelStep) ELSE p.velocity
        y == p.y + VelToInt(v)
    IN  [x |-> p.x, y |-> IF y < 0 THEN 0 ELSE y, velocity |-> v]

flap_Relative(p) == [p EXCEPT !.velocity = @ + VelFlap]

flap(p) == [p EXCEPT !.velocity = VelFlap]

\* ------------------------------------------------------------ Obstacle
ObstacleSize_NoFloor(sc) == 40 - TruncDiv(sc, 2)

ObstacleSize(sc) == Max(20, 40 - TruncDiv(sc, 2))

ObstacleNew_Inside(x, sc, gap) ==
    [x |-> 2 * x - 2, gap_y |-> gap, size |-> ObstacleSize(sc), scored |-> FALSE]

ObstacleNew(x, sc, gap) ==
    [x |-> 2 * x, gap_y |-> gap, size |-> ObstacleSize(sc), scored |-> FALSE]

hit_obstacle(o, p) ==
    LET half_size == TruncDiv(o.size, 2)
        player_left_gap == p.x < XToInt(o.x)
        player_right_gap == (p.x + player_width) > XToInt(o.x)
        player_above_gap == p.y < o.gap_y - half_size
        player_below_gap == (p.y + player_height) > o.gap_y + half_size
    IN  (player_left_gap /\ player_right_gap) /\ (player_above_gap \/ player_below_gap)

\* ------------------------------------------------------------ high-score file
\* The file "highscore.txt": NoFile, or its text as a sequence of characters.
NoFile == <<"absent">>
Digits == <<"0", "1", "2", "3", "4", "5", "6", "7", "8", "9">>
I32Max == 2147483647

DigitVal(c) == CHOOSE d \in 0 .. 9 : Digits[d + 1] = c
IsDigit(c) == \E d \in 0 .. 9 : Digits[d + 1] = c
IsSpace(c) == c \in {" ", "\n", "\t", "\r"}

RECURSIVE NatToString(_)
NatToString(n) ==
    IF n < 10 THEN <<Digits[n + 1]>>
    ELSE Append(NatToString(n \div 10), Digits[(n % 10) + 1])

to_string_Units(n) == <<Digits[(n % 10) + 1]>>

\* i32::to_string
to_string(n) == IF n < 0 THEN <<"-">> \o NatToString(-n) ELSE NatToString(n)

RECURSIVE TrimStart(_)
TrimStart(t) == IF t # <<>> /\ IsSpace(Head(t)) THEN TrimStart(Tail(t)) ELSE t

RECURSIVE TrimEnd(_)
TrimEnd(t) ==
    IF t # <<>> /\ IsSpace(t[Len(t)]) THEN TrimEnd(SubSeq(t, 1, Len(t) - 1)) ELSE t

\* str::trim
trim(t) == TrimEnd(TrimStart(t))

RECURSIVE DigitsValue(_, _)
\* the value of a digit string, or -1 when it does not fit an i32
DigitsValue(t, acc) ==
    IF t = <<>> THEN acc
    ELSE IF acc > (I32Max - DigitVal(Head(t))) \div 10 THEN -1
    ELSE DigitsValue(Tail(t), 10 * acc + DigitVal(Head(t)))

\* str::parse::<i32>().unwrap_or(0)
parse_or_zero(t) ==
    LET neg == t # <<>> /\ Head(t) = "-"
        body == IF t # <<>> /\ Head(t) \in {"-", "+"} THEN Tail(t) ELSE t
        ok == body # <<>> /\ \A i \in 1 .. Len(body) : IsDigit(body[i])
        v == IF ok THEN DigitsValue(body, 0) ELSE -1
    IN  IF neg /\ body = <<"2", "1", "4", "7", "4", "8", "3", "6", "4", "8">>
        THEN (-I32Max) - 1
        ELSE IF ~ok \/ v < 0 THEN 0 ELSE IF neg THEN -v ELSE v

\* fs::read_to_string("highscore.txt") and the match on it
LoadHighScore(file) == IF file = NoFile THEN 0 ELSE parse_or_zero(trim(file))

\* The files the program may find when it starts.
InitialFiles == {NoFile, <<"1", "\n">>}

\* More of them: empty, not a number, a sign alone, padded with white space,
\* signed, negative, and around the ends of the i32 range.
StartFiles ==
    InitialFiles \cup
    {<<>>, <<"a">>, <<"1", "a">>, <<"-">>, <<" ", "\n">>,
     <<" ", "7", "\r", "\n">>, <<"+", "3">>, <<"-", "3">>, <<"0", "0", "9">>,
     <<"2", "1", "4", "7", "4", "8", "3", "6", "4", "7">>,
     <<"2", "1", "4", "7", "4", "8", "3", "6", "4", "8">>,
     <<"-", "2", "1", "4", "7", "4", "8", "3", "6", "4", "8">>}

\* ------------------------------------------------------------ State
\* State::update_background, on the count of frames scrolled
update_background(offset) == IF offset < ScrollCap THEN offset + 1 ELSE offset

Init ==
    /\ highscore_file \in InitialFiles
    /\ background_offset = 0
    /\ fs_writes = 0
    /\ high_score = LoadHighScore(highscore_file)
    /\ player = PlayerNew(2, 25)
    /\ frame_time = 0
    /\ mode = "Menu"
    /\ score = 0
    /\ \E gap \in GapYs : obstacle_list = <<ObstacleNew(screen_width, 0, gap)>>
    /\ distance = 0
    /\ menu_state = [current_menu |-> "Main", selected_option |-> 0, in_submenu |-> FALSE]
    /\ settings = [background_style |-> "Mountains", player_style |-> "Duck",
                   obstacle_distance |-> 50]
    /\ quitting = FALSE

restart_ScrollOn(gap) ==
    /\ player' = PlayerNew(2, 25)
    /\ frame_time' = 0
    /\ mode' = "Playing"
    /\ score' = 0
    /\ distance' = 0
    /\ obstacle_list' = <<ObstacleNew(screen_width, 0, gap)>>
    /\ background_offset' = update_background(background_offset)

restart_ToEnd(gap) ==
    /\ player' = PlayerNew(2, 25)
    /\ frame_time' = 0
    /\ mode' = "End"
    /\ score' = 0
    /\ distance' = 0
    /\ obstacle_list' = <<ObstacleNew(screen_width, 0, gap)>>
    /\ background_offset' = 0

\* State::restart: the assignments to the game fields, with the gap the
\* random number generator draws
restart(gap) ==
    /\ player' = PlayerNew(2, 25)
    /\ frame_time' = 0
    /\ mode' = "Playing"
    /\ score' = 0
    /\ distance' = 0
    /\ obstacle_list' = <<ObstacleNew(screen_width, 0, gap)>>
    /\ background_offset' = 0

\* ------------------------------------------------------------ menu
max_options_NoPanel(menu) == 4

\* max_options of the Down arm
max_options(menu) ==
    CASE menu = "Main" -> 4
      [] menu = "Background" -> 3
      [] menu = "Player" -> 3
      [] menu = "Obstacle" -> 1

BackgroundStyles_Swapped == <<"Clouds", "Stars", "Mountains">>

BackgroundStyles == <<"Stars", "Clouds", "Mountains">>
PlayerStyles == <<"Dragon", "Bird", "Duck">>
SubMenus == <<"Background", "Player", "Obstacle">>

\* the new obstacle spacing of the Left and the Right arm
AdjustLeft(d) == Max(40, d - 5)
AdjustRight_NoClamp(d) == d + 5

AdjustRight(d) == Min(60, d + 5)

\* what an arm other than the restart leaves of the game: its fields as
\* they were, the background offset as main_menu's update_background made it
GameUnchanged ==
    /\ UNCHANGED <<player, frame_time, mode, score, distance, obstacle_list>>
    /\ background_offset' = update_background(background_offset)

\* State::handle_menu_input, one arm of `match key` per disjunct
handle_menu_input(key) ==
    LET cur == menu_state.current_menu
        sel == menu_state.selected_option
    IN
    \/ /\ key = "Up"
       /\ menu_state' = IF sel > 0 THEN [menu_state EXCEPT !.selected_option = sel - 1]
                         ELSE menu_state
       /\ GameUnchanged
       /\ UNCHANGED <<settings, quitting>>
    \/ /\ key = "Down"
       /\ menu_state' = IF sel < max_options(cur)
                         THEN [menu_state EXCEPT !.selected_option = sel + 1]
                         ELSE menu_state
       /\ GameUnchanged
       /\ UNCHANGED <<settings, quitting>>
    \/ /\ key = "Return"
       /\ cur = "Main"
       /\ sel = 0
       /\ \E gap \in GapYs : restart(gap)
       /\ UNCHANGED <<menu_state, settings, quitting>>
    \/ /\ key = "Return"
       /\ cur = "Main"
       /\ sel # 0
       /\ menu_state' = IF sel \in 1 .. 3
                         THEN [menu_state EXCEPT !.current_menu = SubMenus[sel],
                                                 !.selected_option = 0]
                         ELSE menu_state
       /\ quitting' = IF sel = 4 THEN TRUE ELSE quitting
       /\ GameUnchanged
       /\ UNCHANGED settings
    \/ /\ key = "Return"
       /\ cur = "Background"
       /\ settings' = IF sel \in 0 .. 2
                       THEN [settings EXCEPT !.background_style = BackgroundStyles[sel + 1]]
                       ELSE settings
       /\ menu_state' = IF sel = 3
                         THEN [menu_state EXCEPT !.current_menu = "Main",
                                                 !.selected_option = 1]
                         ELSE menu_state
       /\ GameUnchanged
       /\ UNCHANGED quitting
    \/ /\ key = "Return"
       /\ cur = "Player"
       /\ settings' = IF sel \in 0 .. 2
                       THEN [settings EXCEPT !.player_style = PlayerStyles[sel + 1]]
                       ELSE settings
       /\ menu_state' = IF sel = 3
                         THEN [menu_state EXCEPT !.current_menu = "Main",
                                                 !.selected_option = 2]
                         ELSE menu_state
       /\ GameUnchanged
       /\ UNCHANGED quitting
    \/ /\ key = "Return"
       /\ cur = "Obstacle"
       /\ menu_state' = IF sel = 1
                         THEN [menu_state EXCEPT !.current_menu = "Main",
                                                 !.selected_option = 3]
                         ELSE menu_state
       /\ GameUnchanged
       /\ UNCHANGED <<settings, quitting>>
    \/ /\ key = "Left"
       /\ settings' = IF cur = "Obstacle" /\ sel = 0
                       THEN [settings EXCEPT !.obstacle_distance =
                                 AdjustLeft(settings.obstacle_distance)]
                       ELSE settings
       /\ GameUnchanged
       /\ UNCHANGED <<menu_state, quitting>>
    \/ /\ key = "Right"
       /\ settings' = IF cur = "Obstacle" /\ sel = 0
                       THEN [settings EXCEPT !.obstacle_distance =
                                 AdjustRight(settings.obstacle_distance)]
                       ELSE settings
       /\ GameUnchanged
       /\ UNCHANGED <<menu_state, quitting>>
    \/ /\ key = "Escape"
       /\ menu_state' = [menu_state EXCEPT !.current_menu = "Main", !.selected_option = 0]
       /\ GameUnchanged
       /\ UNCHANGED <<settings, quitting>>
    \/ /\ key \notin {"Up", "Down", "Return", "Left", "Right", "Escape"}
       /\ GameUnchanged
       /\ UNCHANGED <<menu_state, settings, quitting>>

main_menu_StartOnAnyPanel(key, ms) ==
    /\ mode = "Menu"
    /\ ~quitting
    /\ IF key = "Return" /\ menu_state.selected_option = 0
       THEN /\ \E gap \in GapYs : restart(gap)
            /\ UNCHANGED <<menu_state, settings, quitting>>
       ELSE handle_menu_input(key)
    /\ UNCHANGED <<high_score, highscore_file, fs_writes>>

main_menu_EscapeIgnored(key, ms) ==
    /\ mode = "Menu"
    /\ ~quitting
    /\ handle_menu_input(IF key = "Escape" THEN "None" ELSE key)
    /\ UNCHANGED <<high_score, highscore_file, fs_writes>>

\* State::main_menu
main_menu(key, ms) ==
    /\ mode = "Menu"
    /\ ~quitting
    /\ handle_menu_input(key)
    /\ UNCHANGED <<high_score, highscore_file, fs_writes>>

\* ------------------------------------------------------------ playing
\* One pass of the `for obstacle in &mut self.obstacle_list` loop body over
\* an obstacle: Obstacle::render moves it, then it may be marked scored.
ScoresNow_OnArrival(o, p) ==
    p.x + player_width > XToInt(o.x - obstacle_speed) /\ ~o.scored

ScoresNow_AtColumn(o, p) == p.x >= XToInt(o.x - obstacle_speed) /\ ~o.scored

\* whether the loop body, having moved the obstacle, counts it in the score
ScoresNow(o, p) == p.x > XToInt(o.x - obstacle_speed) /\ ~o.scored

StepObstacle(o, p) ==
    [o EXCEPT !.x = o.x - obstacle_speed, !.scored = o.scored \/ ScoresNow(o, p)]

RECURSIVE CountScored(_, _)
CountScored(list, p) ==
    IF list = <<>> THEN 0
    ELSE (IF ScoresNow(Head(list), p) THEN 1 ELSE 0) + CountScored(Tail(list), p)

\* Vec::retain(|obstacle| obstacle.x > 0.0)
Retain_AtEdge(list) == SelectSeq(list, LAMBDA o : o.x >= 0)

Retain(list) == SelectSeq(list, LAMBDA o : o.x > 0)

\* the check on the lower screen edge
Fell_AtEdge(p) == p.y + player_height >= screen_height

Fell(p) == p.y + player_height > screen_height

playing_Paused(key, ms) ==
    /\ mode = "Playing"
    /\ ~quitting
    /\ UNCHANGED vars

\* State::playing
playing(key, ms) ==
    /\ mode = "Playing"
    /\ ~quitting
    /\ LET ft == frame_time + ms
           p1 == IF ft > frame_duration THEN gravity_to_move(player) ELSE player
           p2 == IF key = "Space" THEN flap(p1) ELSE p1
           moved == [i \in 1 .. Len(obstacle_list) |-> StepObstacle(obstacle_list[i], p2)]
           sc == score + CountScored(obstacle_list, p2)
           hit == \E i \in 1 .. Len(moved) : hit_obstacle(moved[i], p2)
           kept == Retain(moved)
           dist == distance + obstacle_speed
           spawn == dist > 2 * settings.obstacle_distance
           fell == Fell(p2)
       IN  /\ frame_time' = IF ft > frame_duration THEN 0 ELSE ft
           /\ player' = p2
           /\ score' = sc
           /\ IF spawn
              THEN /\ \E gap \in GapYs :
                        obstacle_list' = Append(kept, ObstacleNew(screen_width, sc, gap))
                   /\ distance' = 0
              ELSE /\ obstacle_list' = kept
                   /\ distance' = dist
           /\ mode' = IF hit \/ fell THEN "End" ELSE "Playing"
    /\ background_offset' = update_background(background_offset)
    /\ UNCHANGED <<menu_state, settings, high_score, quitting, highscore_file, fs_writes>>

\* ------------------------------------------------------------ end
\* the test that guards the update of the high score
IsNewHighScore_Lower(sc, hs) == sc < hs

IsNewHighScore_OrEqual(sc, hs) == sc >= hs

IsNewHighScore(sc, hs) == sc > hs

\* State::end
end(key, ms) ==
    /\ mode = "End"
    /\ ~quitting
    /\ IF IsNewHighScore(score, high_score)
       THEN /\ high_score' = score
            /\ highscore_file' = to_string(score)
            /\ fs_writes' = fs_writes + 1
       ELSE UNCHANGED <<high_score, highscore_file, fs_writes>>
    /\ \/ /\ key = "P"
          /\ \E gap \in GapYs : restart(gap)
          /\ UNCHANGED quitting
       \/ /\ key = "M"
          /\ mode' = "Menu"
          /\ background_offset' = update_background(background_offset)
          /\ UNCHANGED <<player, frame_time, score, distance, obstacle_list, quitting>>
       \/ /\ key = "Q"
          /\ quitting' = TRUE
          /\ background_offset' = update_background(background_offset)
          /\ UNCHANGED <<player, frame_time, mode, score, distance, obstacle_list>>
       \/ /\ key \notin {"P", "M", "Q"}
          /\ background_offset' = update_background(background_offset)
          /\ UNCHANGED <<player, frame_time, mode, score, distance, obstacle_list, quitting>>
    /\ UNCHANGED <<menu_state, settings>>

\* ------------------------------------------------------------ tick
\* GameState::tick, with the key and the elapsed time the host passes in ctx
tick(key, ms) == main_menu(key, ms) \/ playing(key, ms) \/ end(key, ms)

\* ------------------------------------------------------------ specifications
LongFrame == 2 * ShortFrame

\* Spec: every key in the menu and on the end screen; during a game the
\* player does not flap, so a game ends by falling.
Next ==
    \/ \E key \in Keys : main_menu(key, ShortFrame)
    \/ \E key \in Keys \ {"Space"} : playing(key, ShortFrame)
    \/ \E key \in Keys : end(key, ShortFrame)

Spec == Init /\ [][Next]_vars

\* SpecGame: the settings stay as constructed (Down is not pressed in the
\* menu), every frame is a long one, and a game is played with free flaps
\* while the next obstacle is within NearX columns and not yet over the
\* player; otherwise the player hovers (flaps exactly when y >= HoverY), and
\* once the score has reached MaxScore the player stops flapping.  During
\* a game the keys are those of GameKeys: playing tells Space from every
\* other key only.
GameKeys == {"None", "Space"}

\* The obstacle the player meets next: the first one not yet scored.
Pending == SelectSeq(obstacle_list, LAMBDA o : ~o.scored)
ObstacleNear ==
    /\ Pending # <<>>
    /\ XToInt(Head(Pending).x) <= NearX
    /\ XToInt(Head(Pending).x) >= player.x + player_width
Hover == IF player.y >= HoverY THEN "Space" ELSE "None"

PlayKeys ==
    IF score >= MaxScore THEN GameKeys \ {"Space"}
    ELSE IF ObstacleNear THEN GameKeys
    ELSE {Hover}

NextGame ==
    \/ \E key \in Keys \ {"Down"} : main_menu(key, LongFrame)
    \/ \E key \in PlayKeys : playing(key, LongFrame)
    \/ \E key \in Keys : end(key, LongFrame)

InitGame == Init /\ highscore_file = NoFile

SpecGame == InitGame /\ [][NextGame]_vars

\* SpecEdge: one line of play that brings an obstacle to the player's left
\* column: the player hovers around EdgeY, chooses its flaps freely while the
\* next obstacle is at column EdgeX or nearer, and stops flapping once the
\* score has reached MaxScore.
EdgeKeys ==
    IF score >= MaxScore THEN {"None"}
    ELSE IF Pending # <<>> /\ XToInt(Head(Pending).x) <= EdgeX THEN {"None", "Space"}
    ELSE {IF player.y >= EdgeY THEN "Space" ELSE "None"}

NextEdge ==
    \/ \E key \in {"None", "Return"} : main_menu(key, LongFrame)
    \/ \E key \in EdgeKeys : playing(key, LongFrame)
    \/ \E key \in {"None", "P"} : end(key, LongFrame)

SpecEdge == InitGame /\ [][NextEdge]_vars

\* SpecSpawn: games already under way.  With the default spacing a game in
\* which the player has passed every obstacle so far is, 201 + 101 * k ticks
\* after its start, in the state InitSpawn draws: k obstacles counted and
\* removed, the next two on screen at x = 19.5 and x = 70, created at the
\* scores k - 2 and k - 1 (0 for the first three of a game), and the spawn
\* distance at 50.  The player has just flapped at the starting height and
\* from there on lets the bird fall.
SpawnedAt(k) == Max(0, k)

InitSpawn ==
    /\ highscore_file = NoFile
    /\ fs_writes = 0
    /\ high_score = LoadHighScore(highscore_file)
    /\ player = flap(PlayerNew(2, 25))
    /\ frame_time = 0
    /\ mode = "Playing"
    /\ score \in 0 .. MaxSpawnScore
    /\ \E gap \in GapYs :
          obstacle_list =
              <<[ObstacleNew(screen_width, SpawnedAt(score - 2), gap) EXCEPT !.x = 39],
                [ObstacleNew(screen_width, SpawnedAt(score - 1), gap) EXCEPT !.x = 140]>>
    /\ distance = 2 * 50
    /\ background_offset = ScrollCap
    /\ menu_state = [current_menu |-> "Main", selected_option |-> 0, in_submenu |-> FALSE]
    /\ settings = [background_style |-> "Mountains", player_style |-> "Duck",
                   obstacle_distance |-> 50]
    /\ quitting = FALSE

NextSpawn ==
    \/ \E key \in {"None", "Return"} : main_menu(key, LongFrame)
    \/ playing("None", LongFrame)
    \/ \E key \in {"None", "P", "M"} : end(key, LongFrame)

SpecSpawn == InitSpawn /\ [][NextSpawn]_vars

\* SpecFile: the process is started over.  The first game of a process is
\* under way as in InitSpawn, at a score of 0 to MaxFileScore and with any of
\* StartFiles on disk; the player lets the bird fall.  Once the program has
\* asked to quit (Q on the end screen, or Quit in the menu), relaunch runs
\* main again: State::new reads the file the last process left.
InitFile ==
    /\ highscore_file \in StartFiles
    /\ fs_writes = 0
    /\ high_score = LoadHighScore(highscore_file)
    /\ player = flap(PlayerNew(2, 25))
    /\ frame_time = 0
    /\ mode = "Playing"
    /\ score \in 0 .. MaxFileScore
    /\ \E gap \in GapYs :
          obstacle_list =
              <<[ObstacleNew(screen_width, SpawnedAt(score - 2), gap) EXCEPT !.x = 39],
                [ObstacleNew(screen_width, SpawnedAt(score - 1), gap) EXCEPT !.x = 140]>>
    /\ distance = 2 * 50
    /\ background_offset = ScrollCap
    /\ menu_state = [current_menu |-> "Main", selected_option |-> 0, in_submenu |-> FALSE]
    /\ settings = [background_style |-> "Mountains", player_style |-> "Duck",
                   obstacle_distance |-> 50]
    /\ quitting = FALSE

relaunch ==
    /\ quitting
    /\ quitting' = FALSE
    /\ high_score' = LoadHighScore(highscore_file)
    /\ player' = PlayerNew(2, 25)
    /\ frame_time' = 0
    /\ mode' = "Menu"
    /\ score' = 0
    /\ \E gap \in GapYs : obstacle_list' = <<ObstacleNew(screen_width, 0, gap)>>
    /\ distance' = 0
    /\ background_offset' = 0
    /\ menu_state' = [current_menu |-> "Main", selected_option |-> 0, in_submenu |-> FALSE]
    /\ settings' = [background_style |-> "Mountains", player_style |-> "Duck",
                    obstacle_distance |-> 50]
    /\ UNCHANGED <<highscore_file, fs_writes>>

NextFile ==
    \/ \E key \in {"None", "Return"} : main_menu(key, LongFrame)
    \/ playing("None", LongFrame)
    \/ \E key \in {"None", "Q"} : end(key, LongFrame)
    \/ relaunch

SpecFile == InitFile /\ [][NextFile]_vars

\* SpecFlap: short frames, so that a gravity step is made on every second
\* tick only; the player chooses its flaps freely while the first obstacle
\* has moved less than FlapTicks times and then lets the bird fall.  Space is
\* also pressed in the menu and on the end screen.
FlapKeys ==
    IF /\ Len(obstacle_list) = 1
       /\ obstacle_list[1].x > 2 * screen_width - FlapTicks
    THEN {"None", "Space"}
    ELSE {"None"}

NextFlap ==
    \/ \E key \in {"None", "Space", "Return"} : main_menu(key, ShortFrame)
    \/ \E key \in FlapKeys : playing(key, ShortFrame)
    \/ \E key \in {"None", "Space", "P", "M"} : end(key, ShortFrame)

SpecFlap == InitGame /\ [][NextFlap]_vars

\* SpecFlapFair: SpecFlap in which the host keeps calling tick during a
\* game (main_loop runs the frame loop until the program quits), so that a
\* Playing tick is taken whenever the game is in Playing.  Space is pressed
\* during the first FlapTicks ticks of a game at most.
PlayTick == \E key \in FlapKeys : playing(key, ShortFrame)

SpecFlapFair == InitGame /\ [][NextFlap]_vars /\ WF_vars(PlayTick)

\* SpecPace: whole games at every obstacle spacing.  The menu is used to set
\* the spacing (and, on the way, the skins); in a game the player hovers
\* (flaps exactly when y >= HoverY) until the score has reached MaxScore and
\* then lets the bird fall.
PaceKeys == IF score >= MaxScore THEN {"None"} ELSE {Hover}

NextPace ==
    \/ \E key \in {"None", "Down", "Return", "Left", "Right", "Escape"} :
           main_menu(key, LongFrame)
    \/ \E key \in PaceKeys : playing(key, LongFrame)
    \/ \E key \in {"None", "P", "M"} : end(key, LongFrame)

SpecPace == InitGame /\ [][NextPace]_vars

\* ------------------------------------------------------------ properties
\* C1: in every reachable state the selected index of the menu lies in the
\* range of the current panel: 0..4 on Main, 0..3 on Background and on
\* Player, 0..1 on Obstacle.
C1_SelectedInRange ==
    LET sel == menu_state.selected_option
    IN  CASE menu_state.current_menu = "Main" -> sel \in 0 .. 4
          [] menu_state.current_menu = "Background" -> sel \in 0 .. 3
          [] menu_state.current_menu = "Player" -> sel \in 0 .. 3
          [] menu_state.current_menu = "Obstacle" -> sel \in 0 .. 1
          [] OTHER -> FALSE

\* the last row of the Obstacle panel is selected, after a game was played
C1_Witness ==
    /\ mode = "Menu"
    /\ menu_state.current_menu = "Obstacle"
    /\ menu_state.selected_option = 1
    /\ Fell(player)

\* C2: Player.y is never negative.
C2_YNonNegative == player.y >= 0

\* the player is at the top edge after a gravity step that moved it up
C2_Witness ==
    /\ mode = "Playing"
    /\ player.y = 0
    /\ VelToInt(player.velocity) < 0

\* The collision predicate as C3 states it: the obstacle column lies in
\* [px, px + 14) and [py, py + 14) is not contained in the gap
\* [gap_y - size/2, gap_y + size/2).
C3_StatedPredicate(o, p) ==
    LET ox == XToInt(o.x)
        top == o.gap_y - TruncDiv(o.size, 2)
        bottom == o.gap_y + TruncDiv(o.size, 2)
    IN  /\ p.x <= ox
        /\ ox < p.x + 14
        /\ ~(top <= p.y /\ p.y + 14 <= bottom)

\* C3: for the player and every obstacle of the list, hit_obstacle is true
\* if and only if the obstacle column lies in the player's horizontal extent
\* [px, px + 14) and the player's vertical extent is not inside the gap.
C3_HitIffStated ==
    \A i \in 1 .. Len(obstacle_list) :
        hit_obstacle(obstacle_list[i], player) <=> C3_StatedPredicate(obstacle_list[i], player)

\* What C4 says of one step.  In a Playing tick an obstacle is counted when
\* it is not yet scored and, after its move by 0.5, the player's x strictly
\* exceeds its x (both in halves here); the obstacles that remain keep their
\* order behind those the tick removes.
C4_Step ==
    LET n == Len(obstacle_list)
        removed == Cardinality({i \in 1 .. n : obstacle_list[i].x - 1 <= 0})
        Exceeded(i) == 2 * player'.x > obstacle_list[i].x - 1
        counted == {i \in 1 .. n : ~obstacle_list[i].scored /\ Exceeded(i)}
    IN  /\ mode = "Playing" =>
            /\ score' = score + Cardinality(counted)
            /\ \A i \in 1 .. n : ~obstacle_list[i].scored => ~(2 * player.x > obstacle_list[i].x)
            /\ \A i \in (removed + 1) .. n :
                    /\ obstacle_list'[i - removed].x = obstacle_list[i].x - 1
                    /\ obstacle_list'[i - removed].scored =
                           (obstacle_list[i].scored \/ i \in counted)
        /\ mode # "Playing" =>
            \/ score' = score /\ obstacle_list' = obstacle_list
            \/ /\ mode' = "Playing"
               /\ score' = 0
               /\ Len(obstacle_list') = 1
               /\ ~obstacle_list'[1].scored

\* C4: an obstacle's scored flag goes from false to true at most once and
\* never back; it is set, and the score grows by exactly 1, on the first
\* Playing tick at which player.x strictly exceeds the obstacle's x, and on
\* no other tick.
C4_ScoredOnce == [][C4_Step]_vars

\* a game in which the first obstacle has been counted
C4_Witness ==
    /\ mode = "Playing"
    /\ score = 1
    /\ \E i \in 1 .. Len(obstacle_list) : obstacle_list[i].scored

\* the sizes of the obstacles on screen, oldest first
C5_Sizes ==
    /\ \A i \in 1 .. Len(obstacle_list) : obstacle_list[i].size >= 20
    /\ \A i, j \in 1 .. Len(obstacle_list) :
           i < j => obstacle_list[i].size >= obstacle_list[j].size

\* What C5 says of the obstacle a step creates: a Playing tick that resets
\* the spawn distance has appended one, of the size the score after the tick
\* gives; a restart leaves a single obstacle of size 40.
C5_Step ==
    LET last == obstacle_list'[Len(obstacle_list')]
        stated == IF 40 - (score' \div 2) > 20 THEN 40 - (score' \div 2) ELSE 20
    IN  /\ mode = "Playing" /\ distance' = 0 =>
            /\ Len(obstacle_list') > 0
            /\ last.size = stated
            /\ score' = 0 => last.size = 40
            /\ score' = 50 => last.size = 20
        /\ mode # "Playing" /\ mode' = "Playing" =>
            /\ Len(obstacle_list') = 1
            /\ last.size = 40

\* C5: every obstacle has size >= 20; an obstacle is created with size
\* max(20, 40 - score / 2) (integer division) for the score at spawn time,
\* so 40 at score 0 and 20 at score 50; within one game a later obstacle is
\* never larger than an earlier one.
C5_SizeRule == []C5_Sizes /\ [][C5_Step]_vars

\* the floor has acted: an obstacle of size 20 behind a larger one
C5_Witness ==
    /\ mode = "Playing"
    /\ Len(obstacle_list) = 3
    /\ obstacle_list[1].size > 20
    /\ obstacle_list[3].size = 20
    /\ score >= 40

\* What C6 says of one step out of Playing: the obstacles are taken after
\* their move by 0.5 and the player after its own, the collision predicate
\* is hit_obstacle, and the bottom rule is y + 14 > 80.
C6_Step ==
    LET after(o) == [o EXCEPT !.x = @ - 1]
        collides == \E i \in 1 .. Len(obstacle_list) :
                        hit_obstacle(after(obstacle_list[i]), player')
        fell == player'.y + 14 > 80
        in_column == \E i \in 1 .. Len(obstacle_list) :
                        /\ 2 * player'.x <= obstacle_list[i].x - 1
                        /\ obstacle_list[i].x - 1 < 2 * (player'.x + 14)
    IN  mode = "Playing" =>
            /\ collides \/ fell => mode' = "End"
            /\ ~(collides \/ fell) => mode' = "Playing"
            /\ player'.y = 0 /\ ~in_column => mode' = "Playing"

\* C6: a Playing tick ends in End if and only if, after the tick's movement,
\* some obstacle of the list collides with the player or player.y + 14 > 80,
\* and otherwise stays in Playing; a player at y = 0 outside every obstacle
\* column does not end the game.
C6_EndIffHitOrFell == [][C6_Step]_vars

\* a game ended by a collision, the player still above the bottom edge
C6_Witness ==
    /\ mode = "End"
    /\ player.y + player_height <= screen_height
    /\ \E i \in 1 .. Len(obstacle_list) : hit_obstacle(obstacle_list[i], player)

\* What C7 says of one step: the high score does not go down, and a tick in
\* End mode leaves it at the larger of its old value and the score, so that
\* it is at least the score of the state the tick produces.
C7_Step ==
    /\ high_score' >= high_score
    /\ mode = "End" =>
           /\ high_score' = (IF score > high_score THEN score ELSE high_score)
           /\ high_score' >= score'

\* C7: the in-memory high score never decreases; after every End-mode tick
\* it equals max(previous high score, current score), hence is >= score.
C7_HighScoreMax == [][C7_Step]_vars

\* a game over with a score below the high score of an earlier game
C7_Witness ==
    /\ mode = "End"
    /\ high_score = 1
    /\ score = 0

\* What C8 says of one step: the file is written once by a tick in End mode
\* whose score exceeds the high score, with the score in decimal, and by no
\* other tick; a tick that stays in End leaves no new high score behind, so
\* the later End ticks of a game over write nothing.
C8_Step ==
    LET writes == mode = "End" /\ score > high_score
    IN  /\ fs_writes' = fs_writes + (IF writes THEN 1 ELSE 0)
        /\ highscore_file' = (IF writes THEN to_string(score) ELSE highscore_file)
        /\ mode # "End" => fs_writes' = fs_writes
        /\ mode = "End" /\ mode' = "End" => ~(score' > high_score')

\* C8: for each game over the high-score file is written exactly once, on
\* the first End tick, if the final score exceeds the previous high score,
\* and not at all otherwise; later End ticks and all Menu and Playing ticks
\* never write it.
C8_WriteOnce == [][C8_Step]_vars

\* a game over that has written its score, and only once
C8_Witness ==
    /\ mode = "End"
    /\ fs_writes = 1
    /\ score = 1
    /\ highscore_file = <<"1">>

\* What C9 says of one tick with a given key
C9_Step ==
    \A key \in Keys :
        tick(key, ShortFrame) =>
            LET d == settings.obstacle_distance
                on_row == /\ mode = "Menu"
                          /\ menu_state.current_menu = "Obstacle"
                          /\ menu_state.selected_option = 0
                lower == IF d - 5 < 40 THEN 40 ELSE d - 5
                upper == IF d + 5 > 60 THEN 60 ELSE d + 5
            IN  settings'.obstacle_distance =
                    (IF on_row /\ key = "Left" THEN lower
                     ELSE IF on_row /\ key = "Right" THEN upper
                     ELSE d)

\* C9: the obstacle spacing starts at 50 and is always one of 40, 45, 50, 55,
\* 60; it changes only on Left or Right in Menu mode on the Obstacle panel
\* with row 0 selected, by -5 / +5 clamped to [40, 60].
C9_Spacing ==
    /\ settings.obstacle_distance = 50
    /\ [](settings.obstacle_distance \in {40, 45, 50, 55, 60})
    /\ [][C9_Step]_vars

\* the upper clamp has been reached, and a game started with it
C9_Witness ==
    /\ settings.obstacle_distance = 60
    /\ mode = "Playing"

\* What C10 says of one tick with a given key that changes the mode
C10_Step ==
    \A key \in Keys :
        tick(key, ShortFrame) /\ mode' # mode =>
            \/ /\ mode = "Menu" /\ mode' = "Playing"
               /\ key = "Return"
               /\ menu_state.current_menu = "Main"
               /\ menu_state.selected_option = 0
            \/ /\ mode = "Playing" /\ mode' = "End"
               /\ \/ \E i \in 1 .. Len(obstacle_list') :
                         hit_obstacle(obstacle_list'[i], player')
                  \/ player'.y + 14 > 80
            \/ mode = "End" /\ mode' = "Playing" /\ key = "P"
            \/ mode = "End" /\ mode' = "Menu" /\ key = "M"

\* C10: the only mode transitions are Menu->Playing (Return on Main option
\* 0), Playing->End (collision or fall), End->Playing (key P) and End->Menu
\* (key M); no other key, and no other tick, changes the mode.
C10_Transitions == [][C10_Step]_vars

\* back in the menu after a game that ended at the bottom edge
C10_Witness ==
    /\ mode = "Menu"
    /\ player.y + player_height > screen_height

\* files that are missing or do not hold an i32
C11_Unreadable ==
    {NoFile, <<>>, <<"a">>, <<"1", "a">>, <<"-">>, <<" ", "\n">>,
     <<"2", "1", "4", "7", "4", "8", "3", "6", "4", "8">>}

\* What C11 says of a start of the process: when this or an earlier process
\* has written a high score, the new process loads what the old one held in
\* memory, which is the number written last; a missing or unparsable file
\* loads 0.
C11_Step ==
    quitting /\ ~quitting' =>
        /\ fs_writes > 0 => high_score' = high_score
        /\ fs_writes = 0 /\ highscore_file \in C11_Unreadable => high_score' = 0

\* C11: after the program has written a new high score N, a restart of the
\* process loads high score = N; a missing or unparsable file loads 0.
C11_RoundTrip ==
    /\ highscore_file \in C11_Unreadable => high_score = 0
    /\ [][C11_Step]_vars

\* a process started after one that wrote a two-digit high score
C11_Witness ==
    /\ mode = "Menu"
    /\ ~quitting
    /\ fs_writes = 1
    /\ high_score >= 10
    /\ highscore_file = to_string(high_score)

\* C12: the player's vertical velocity never exceeds the cap of 2.0 (VelCap
\* in units of 2^-26), whatever flaps and gravity steps came before.
C12_VelocityCap == player.velocity <= VelCap

\* the position C13 states for the gravity step of player p: the velocity is
\* raised first, and y moves by its floor (\div rounds down), not below 0
C13_StatedY(p) ==
    LET v == IF p.velocity < VelCap THEN F32Round(p.velocity + VelStep) ELSE p.velocity
        y == p.y + (v \div VelOne)
    IN  IF y < 0 THEN 0 ELSE y

\* C13: a gravity step moves the player by floor(velocity), velocity being
\* the value after the step's increase: y' = max(0, y + floor(v')), for the
\* player of every state of a game.
C13_FloorMove == mode = "Playing" => gravity_to_move(player).y = C13_StatedY(player)

\* What C14 says of one tick with a given key
C14_Step ==
    \A key \in Keys :
        tick(key, ShortFrame) /\ key = "Space" =>
            /\ mode = "Playing" =>
                   /\ 2 * player'.velocity = -5 * VelOne
                   /\ player'.x = player.x
                   /\ player'.y = (IF frame_time + ShortFrame > frame_duration
                                   THEN gravity_to_move(player).y
                                   ELSE player.y)
            /\ mode \in {"Menu", "End"} => player' = player

\* C14: after a Playing tick whose key is Space the velocity is exactly
\* -2.5, whatever it was before and whether or not the tick made a gravity
\* step; the flap does not change y by itself (y is as the gravity step, or
\* its absence, leaves it), and Space in Menu or End mode leaves the player
\* unchanged.
C14_Flap == [][C14_Step]_vars

\* a flap in mid-fall (below the starting height) on a tick without a
\* gravity step
C14_Witness ==
    /\ mode = "Playing"
    /\ player.velocity = VelFlap
    /\ frame_time = ShortFrame
    /\ player.y > 25

\* What C15 says of a Return in the menu on a sub-panel
C15_Step ==
    LET cur == menu_state.current_menu
        sel == menu_state.selected_option
        stays == /\ menu_state'.current_menu = cur
                 /\ menu_state'.selected_option = sel
                 /\ mode' = mode
        back(n) == /\ menu_state'.current_menu = "Main"
                   /\ menu_state'.selected_option = n
                   /\ settings' = settings
    IN  tick("Return", ShortFrame) /\ mode = "Menu" =>
            /\ cur = "Background" /\ sel = 0 =>
                   stays /\ settings' = [settings EXCEPT !.background_style = "Stars"]
            /\ cur = "Background" /\ sel = 1 =>
                   stays /\ settings' = [settings EXCEPT !.background_style = "Clouds"]
            /\ cur = "Background" /\ sel = 2 =>
                   stays /\ settings' = [settings EXCEPT !.background_style = "Mountains"]
            /\ cur = "Player" /\ sel = 0 =>
                   stays /\ settings' = [settings EXCEPT !.player_style = "Dragon"]
            /\ cur = "Player" /\ sel = 1 =>
                   stays /\ settings' = [settings EXCEPT !.player_style = "Bird"]
            /\ cur = "Player" /\ sel = 2 =>
                   stays /\ settings' = [settings EXCEPT !.player_style = "Duck"]
            /\ cur = "Background" /\ sel = 3 => back(1)
            /\ cur = "Player" /\ sel = 3 => back(2)
            /\ cur = "Obstacle" /\ sel = 1 => back(3)

\* A menu tick with Return can reach what C15 states (so the step above is
\* not satisfied by a tick that changes nothing).
C15_Acts ==
    LET cur == menu_state.current_menu
        sel == menu_state.selected_option
        Return == tick("Return", ShortFrame)
    IN  mode = "Menu" /\ ~quitting =>
            /\ cur = "Background" /\ sel \in 0 .. 2 =>
                   ENABLED (Return /\ settings'.background_style =
                                         <<"Stars", "Clouds", "Mountains">>[sel + 1])
            /\ cur = "Player" /\ sel \in 0 .. 2 =>
                   ENABLED (Return /\ settings'.player_style =
                                         <<"Dragon", "Bird", "Duck">>[sel + 1])
            /\ cur = "Background" /\ sel = 3 =>
                   ENABLED (Return /\ menu_state'.current_menu = "Main"
                                   /\ menu_state'.selected_option = 1)
            /\ cur = "Player" /\ sel = 3 =>
                   ENABLED (Return /\ menu_state'.current_menu = "Main"
                                   /\ menu_state'.selected_option = 2)
            /\ cur = "Obstacle" /\ sel = 1 =>
                   ENABLED (Return /\ menu_state'.current_menu = "Main"
                                   /\ menu_state'.selected_option = 3)

\* C15: Return on a non-last option of the Background or Player panel sets
\* the corresponding skin and leaves panel, selected index and mode as they
\* were; Return on the last option of the Background, Player or Obstacle
\* panel returns to Main with selected index 1, 2 or 3 and changes no
\* setting.
C15_SubPanelReturn == []C15_Acts /\ [][C15_Step]_vars

\* a skin other than the default chosen, the panel still open
C15_Witness ==
    /\ mode = "Menu"
    /\ menu_state.current_menu = "Background"
    /\ menu_state.selected_option = 1
    /\ settings.background_style = "Clouds"

\* What C16 says of an Escape in the menu
C16_Step ==
    tick("Escape", ShortFrame) /\ mode = "Menu" =>
        /\ menu_state'.current_menu = "Main"
        /\ menu_state'.selected_option = 0
        /\ settings' = settings
        /\ mode' = mode
        /\ score' = score
        /\ high_score' = high_score

\* A menu tick with Escape away from Main / 0 can reach Main / 0 (so the
\* step above is not satisfied by a tick that changes nothing).
C16_Leaves ==
    mode = "Menu" /\ ~quitting =>
        ENABLED (/\ tick("Escape", ShortFrame)
                 /\ menu_state'.current_menu = "Main"
                 /\ menu_state'.selected_option = 0)

\* C16: in Menu mode an Escape from any panel and any selected index leads
\* to panel Main with selected index 0 and leaves the settings, the mode,
\* the score and the high score unchanged.
C16_Escape == []C16_Leaves /\ [][C16_Step]_vars

\* on Main with index 0 and a spacing that only the Obstacle panel sets:
\* the panel was left
C16_Witness ==
    /\ mode = "Menu"
    /\ menu_state.current_menu = "Main"
    /\ menu_state.selected_option = 0
    /\ settings.obstacle_distance = 45

\* What C17 says of a tick that starts a game.  The high score is compared
\* with what the End handler, which runs before the restart, makes of it
\* (C7); the restart itself does not touch it.
C17_Step ==
    \A key \in Keys :
        /\ tick(key, ShortFrame)
        /\ \/ /\ mode = "Menu" /\ key = "Return"
              /\ menu_state.current_menu = "Main"
              /\ menu_state.selected_option = 0
           \/ mode = "End" /\ key = "P"
        => /\ mode' = "Playing"
           /\ player' = [x |-> 2, y |-> 25, velocity |-> 0]
           /\ score' = 0
           /\ distance' = 0
           /\ frame_time' = 0
           /\ background_offset' = 0
           /\ Len(obstacle_list') = 1
           /\ obstacle_list'[1].x = 2 * 120
           /\ obstacle_list'[1].size = 40
           /\ ~obstacle_list'[1].scored
           /\ settings' = settings
           /\ menu_state' = menu_state
           /\ high_score' = (IF mode = "End" /\ score > high_score
                             THEN score ELSE high_score)

\* C17: every start or restart (Return on Main option 0, or P in End mode)
\* yields mode Playing, the player at (2, 25) with velocity 0, score 0,
\* distance 0, frame time 0, background offset 0 and exactly one unscored
\* obstacle at x = 120 with size 40, and leaves the settings, the high score
\* and the menu state unchanged.
C17_Restart == [][C17_Step]_vars

\* a game just started with settings other than the default ones and a high
\* score loaded from the file
C17_Witness ==
    /\ mode = "Playing"
    /\ player = PlayerNew(2, 25)
    /\ distance = 0
    /\ background_offset = 0
    /\ settings.obstacle_distance = 60
    /\ settings.player_style = "Bird"
    /\ high_score = 1

\* The pacing during a game, x and distance in halves of a cell: the newest
\* obstacle has moved as many ticks as the accumulator has counted since it
\* was appended at x = 120, and neighbours in the list were appended
\* 2 * spacing + 1 ticks apart, which puts them spacing + 0.5 >= spacing
\* cells apart.
C18_Pacing ==
    LET n == Len(obstacle_list)
        spacing == settings.obstacle_distance
    IN  mode = "Playing" =>
            /\ n > 0
            /\ obstacle_list[n].x = 2 * 120 - distance
            /\ \A i \in 1 .. n - 1 :
                   /\ obstacle_list[i + 1].x - obstacle_list[i].x = 2 * spacing + 1
                   /\ obstacle_list[i + 1].x - obstacle_list[i].x >= 2 * spacing

\* What C18 says of one Playing tick: the accumulator grows by 0.5; when it
\* then strictly exceeds the spacing exactly one obstacle is appended at
\* x = 120 and the accumulator is reset, and otherwise none is appended.
C18_Step ==
    LET n == Len(obstacle_list)
        kept == Cardinality({i \in 1 .. n : obstacle_list[i].x - 1 > 0})
        grown == distance + 1
        exceeds == grown > 2 * settings.obstacle_distance
        m == Len(obstacle_list')
    IN  mode = "Playing" =>
            /\ exceeds =>
                   /\ distance' = 0
                   /\ m = kept + 1
                   /\ obstacle_list'[m].x = 2 * 120
            /\ ~exceeds =>
                   /\ distance' = grown
                   /\ m = kept
                   /\ \A i \in 1 .. m : obstacle_list'[i].x < 2 * 120

\* C18: during Playing the distance accumulator grows by 0.5 per tick; a new
\* obstacle is appended at x = 120 on exactly the ticks where it strictly
\* exceeds the configured spacing, and it is then reset to 0; no tick spawns
\* more than one obstacle, successive spawns are 2 * spacing + 1 ticks apart
\* and consecutive obstacles at least spacing cells apart.
C18_SpawnPacing == []C18_Pacing /\ [][C18_Step]_vars

\* the second spawn of a game at the smallest spacing
C18_Witness ==
    /\ mode = "Playing"
    /\ settings.obstacle_distance = 40
    /\ Len(obstacle_list) = 3
    /\ distance = 0

\* every obstacle of the list is on the screen: 0 < x <= 120 (in halves)
C19_OnScreen ==
    \A i \in 1 .. Len(obstacle_list) :
        obstacle_list[i].x > 0 /\ obstacle_list[i].x <= 2 * 120

\* What C19 says of one step.  In a Playing tick every obstacle moves left by
\* 0.5; those whose x is then <= 0 leave the list and all others stay, in
\* their order, followed at most by the one the tick appends.  In Menu and
\* End mode the list is as it was, unless the tick starts a new game.
C19_Step ==
    LET n == Len(obstacle_list)
        moved == [i \in 1 .. n |-> obstacle_list[i].x - 1]
        stay == SelectSeq([i \in 1 .. n |-> i], LAMBDA i : moved[i] > 0)
        m == Len(obstacle_list')
    IN  /\ mode = "Playing" =>
            /\ m \in {Len(stay), Len(stay) + 1}
            /\ \A j \in 1 .. Len(stay) :
                   /\ obstacle_list'[j].x = moved[stay[j]]
                   /\ obstacle_list'[j].gap_y = obstacle_list[stay[j]].gap_y
                   /\ obstacle_list'[j].size = obstacle_list[stay[j]].size
        /\ mode # "Playing" =>
            \/ obstacle_list' = obstacle_list
            \/ mode' = "Playing" /\ m = 1 /\ obstacle_list'[1].x = 2 * 120

\* C19: an obstacle is removed on the Playing tick at which its x becomes
\* <= 0 and not before; after every Playing tick every obstacle of the list
\* has 0 < x <= 120; each obstacle moves left by exactly 0.5 per Playing
\* tick, and obstacles do not move in Menu or End mode.
C19_Removal == []C19_OnScreen /\ [][C19_Step]_vars

\* the first obstacle of a game has been counted and has left the list
C19_Witness ==
    /\ mode = "Playing"
    /\ score = 1
    /\ \A i \in 1 .. Len(obstacle_list) : ~obstacle_list[i].scored

\* during a game and on the end screen the menu is on Main, index 0
C20_MenuAtStart ==
    mode \in {"Playing", "End"} =>
        /\ menu_state.current_menu = "Main"
        /\ menu_state.selected_option = 0

\* a step from the end screen back to the menu
C20_Step ==
    mode = "End" /\ mode' = "Menu" =>
        /\ menu_state'.current_menu = "Main"
        /\ menu_state'.selected_option = 0

\* C20: whenever the mode is Playing or End the menu state is panel Main
\* with selected index 0, so a return to the menu with M from the end screen
\* lands on Main with index 0, whatever sub-panels were visited before.
C20_MenuState == []C20_MenuAtStart /\ [][C20_Step]_vars

\* back in the menu after a game that followed a visit to two sub-panels
C20_Witness ==
    /\ mode = "Menu"
    /\ player.y + player_height > screen_height
    /\ menu_state.current_menu = "Main"
    /\ menu_state.selected_option = 0
    /\ settings.background_style = "Stars"
    /\ settings.obstacle_distance = 55

\* C21: in every reachable state no obstacle whose scored flag is true
\* satisfies the collision predicate with the player, so an obstacle that has
\* been counted in the score does not end the game on that or a later tick.
C21_ScoredNeverHits ==
    \A i \in 1 .. Len(obstacle_list) :
        obstacle_list[i].scored => ~hit_obstacle(obstacle_list[i], player)

\* a counted obstacle still in the list while the player is not inside its
\* gap: only its column keeps it from colliding
C21_Witness ==
    /\ mode = "Playing"
    /\ \E i \in 1 .. Len(obstacle_list) :
          LET o == obstacle_list[i]
          IN  /\ o.scored
              /\ \/ player.y < o.gap_y - TruncDiv(o.size, 2)
                 \/ player.y + player_height > o.gap_y + TruncDiv(o.size, 2)

\* C22: from every reachable Playing state, if Space is not pressed again
\* and ticks keep arriving, the game eventually reaches End mode.
C22_EndsWithoutFlaps == (mode = "Playing") ~> (mode = "End")

\* a game that ended at the bottom edge at full falling speed after flaps
C22_Witness ==
    /\ mode = "End"
    /\ player.y + player_height > screen_height
    /\ player.velocity >= VelCap
    /\ player.y # 67

====
